---- MODULE Spec2Model ----
(***************************************************************************)
(* Model of the pseudo-probability extractors of BenchmarkLangAcq:         *)
(*   scripts/prob_utils/probability_extractors.py                          *)
(*       ProbExtractor, TextLstmProbExtractor                              *)
(*   scripts/utils/probe_babyberta.py                                      *)
(*       babyberta_probing, calc_cross_entropies                           *)
(*                                                                         *)
(* Floats are exact rationals <<num, den>> in lowest terms with den > 0;   *)
(* rounding is not modelled.  A string of words is the sequence of its     *)
(* words (the words of the code's strings are separated by single spaces). *)
(* Tensor device placement (.cuda()) changes no value and is left out.     *)
(***************************************************************************)
EXTENDS Integers, Sequences, FiniteSets, TLC

VARIABLES
    fs,          \* the file system the constructor looks at
    out_file,    \* the file write_probabilities writes
    self,        \* the attributes of the extractor object
    ctor,        \* "none", "ok" or the exception __init__ raised
    load_calls,  \* how many times load_model ran
    ret,         \* what the last call on the extractor returned or raised
    trace,       \* what the last call did: encode_line calls, forward passes, batches
    arg,         \* the arguments of the call under study
    probe        \* the result of babyberta_probing / calc_cross_entropies

vars == <<fs, out_file, self, ctor, load_calls, ret, trace, arg, probe>>

----------------------------------------------------------------------------
(* Bounds of the model *)

MaxRows == 3          \* rows of a data frame given to extract_all or write_probabilities
MaxBatchSize == 3     \* batch_size of the extractor
MaxProbeRows == 3     \* rows of a small data frame given to babyberta_probing
MaxProbeBatch == 2    \* sequences in one batch of the probing data set
MaxExtraRows == 2     \* rows of a large data frame past the first ProbeLimit

----------------------------------------------------------------------------
(* Arithmetic helpers *)

Min(a, b) == IF a < b THEN a ELSE b

Abs(a) == IF a < 0 THEN -a ELSE a

RECURSIVE Gcd(_, _)
Gcd(a, b) == IF b = 0 THEN a ELSE Gcd(b, a % b)

\* The float a / b (b > 0), as a rational in lowest terms.
FloatDiv(a, b) ==
    LET g == Gcd(Abs(a), b)
    IN  IF g = 0 THEN <<0, 1>> ELSE <<a \div g, b \div g>>

\* tensor.item() of an un-normalised sum
FloatOf(a) == <<a, 1>>

\* x < y on floats
FloatLess(x, y) == x[1] * y[2] < y[1] * x[2]

FloatNeg(x) == <<-x[1], x[2]>>

----------------------------------------------------------------------------
(* The fairseq dictionary and the language model, as far as the extractor  *)
(* reads them.                                                             *)

BosIdx == 0
PadIdx == 1
EosIdx == 2
UnkIdx == 3

\* source_dictionary.index(word): a word that is not in the dictionary is
\* <unk> (add_if_not_exist=False).
DictIndex(w) ==
    CASE w = "<s>"   -> BosIdx
      [] w = "<pad>" -> PadIdx
      [] w = "</s>"  -> EosIdx
      [] w = "a"     -> 4
      [] w = "b"     -> 5
      [] w = "ab"    -> 6
      [] w = "<SEP>" -> 7
      [] OTHER       -> UnkIdx

\* encode_line("<s> " + sequence, append_eos=True, add_if_not_exist=False)
EncodeLine(words) ==
    <<DictIndex("<s>")>> \o [k \in 1..Len(words) |-> DictIndex(words[k])] \o <<EosIdx>>

\* pad_sequence(..., padding_value=pad_idx).t(): every row padded on the right
\* to the length of the longest one.
PadSequence(seqs) ==
    LET lens == {Len(seqs[j]) : j \in 1..Len(seqs)}
        width == CHOOSE w \in lens : \A v \in lens : v <= w
    IN  [j \in 1..Len(seqs) |->
            [p \in 1..width |-> IF p <= Len(seqs[j]) THEN seqs[j][p] ELSE PadIdx]]

\* log(softmax(model(x))[j, i, tok]) for the model with weights m: the
\* log-probability that the output at (0-based) position i of row x gives
\* to token tok.  An opaque negative number that depends on the weights,
\* the input token, the position and the target; padding positions get
\* one as well.
LogProb(m, row, i, tok) == -(1 + ((m * row[i + 1] + i + 2 * tok) % 3))

----------------------------------------------------------------------------
(* ProbExtractor.__init__ *)

NoExtractor ==
    [dict_path |-> "unset", batch_size |-> 0, pooling |-> "unset",
     model |-> 0, task |-> "None", loaded |-> FALSE,
     remove_word_spaces |-> FALSE, bpe_encode |-> FALSE, bos_eos |-> FALSE,
     sub_init |-> FALSE,
     example_input |-> [set |-> FALSE, val |-> <<>>]]

\* self.model_path.is_file()
ModelPathIsFile(f) == f.model_file

\* self.dict_path.is_dir(), dict_path being the one given or
\* model_path.parent / 'data-bin'
DictPathGivenOnly(f, dict_path) == f.dict_dir

DictPathIsDir(f, dict_path) ==
    IF dict_path = "data-bin" THEN f.data_bin ELSE f.dict_dir

\* TextLstmProbExtractor.load_model: model 0 is None, a loaded model is
\* named by the weights of the checkpoint.
LoadModelBroken(s, f) == [s EXCEPT !.model = f.weights, !.task = "language_modeling"]

load_model(s, f) ==
    [s EXCEPT !.model = f.weights, !.task = "language_modeling", !.loaded = TRUE]

\* The attributes ProbExtractor.__init__ sets before its checks.
BaseAttributes(dict_given, batch_size, pooling) ==
    [NoExtractor EXCEPT
        !.dict_path = IF dict_given THEN "given" ELSE "data-bin",
        !.batch_size = batch_size,
        !.pooling = pooling]

\* TextLstmProbExtractor.__init__
Construct(dict_given, batch_size, pooling, rws, bpe, bos) ==
    LET s0 == BaseAttributes(dict_given, batch_size, pooling)
    IN  /\ ctor = "none"
        /\ IF ~ModelPathIsFile(fs) \/ ~DictPathIsDir(fs, s0.dict_path)
           THEN /\ self' = s0
                /\ ctor' = "ValueError"
                /\ load_calls' = load_calls
           ELSE /\ self' = [load_model(s0, fs) EXCEPT
                               !.remove_word_spaces = rws,
                               !.bpe_encode = bpe,
                               !.bos_eos = bos,
                               !.sub_init = TRUE]
                /\ ctor' = "ok"
                /\ load_calls' = load_calls + 1
        /\ UNCHANGED <<fs, out_file, ret, trace, arg, probe>>

----------------------------------------------------------------------------
(* TextLstmProbExtractor.preprocessing *)

\* example.replace(' <SEP> ', ' ') on the words of example: str.replace takes
\* the occurrences from left to right without overlap, so a <SEP> is dropped
\* when it has a word on both sides and the space before it was not used up
\* by dropping the word before it.
RECURSIVE ReplaceSep(_, _, _)
ReplaceSep(words, k, prev_dropped) ==
    IF k > Len(words) THEN <<>>
    ELSE IF words[k] = "<SEP>" /\ 1 < k /\ k < Len(words) /\ ~prev_dropped
         THEN ReplaceSep(words, k + 1, TRUE)
         ELSE <<words[k]>> \o ReplaceSep(words, k + 1, FALSE)

\* BertTokenizer.tokenize on one word: word pieces, lower-cased, brackets
\* split off.
WordPieces(w) ==
    CASE w = "ab"    -> <<"a", "##b">>
      [] w = "<SEP>" -> <<"<", "sep", ">">>
      [] OTHER       -> <<w>>

RECURSIVE Tokenize(_)
Tokenize(words) ==
    IF words = <<>> THEN <<>> ELSE WordPieces(Head(words)) \o Tokenize(Tail(words))

preprocessing(s, example) ==
    LET e1 == IF s.remove_word_spaces THEN ReplaceSep(example, 1, FALSE) ELSE example
        e2 == IF s.bpe_encode THEN Tokenize(e1) ELSE e1
    IN  IF s.bos_eos THEN <<"<BOS>">> \o e2 \o <<"<EOS>">> ELSE e2

----------------------------------------------------------------------------
(* TextLstmProbExtractor.extract_batch *)

\* for i, ch_idx in enumerate(sequences_inputs[j][1:]): proba += score, and
\* the loop is left after the pass with i == input_lengths[j] - 2.
RECURSIVE ScoreLoopNoBreak(_, _, _, _, _)
ScoreLoopNoBreak(m, row, len_j, i, proba) ==
    IF i > Len(row) - 2 THEN proba
    ELSE ScoreLoopNoBreak(m, row, len_j, i + 1, proba + LogProb(m, row, i, row[i + 2]))

RECURSIVE ScoreLoop(_, _, _, _, _)
ScoreLoop(m, row, len_j, i, proba) ==
    IF i > Len(row) - 2 THEN proba
    ELSE LET p == proba + LogProb(m, row, i, row[i + 2])
         IN  IF i = len_j - 2 THEN p ELSE ScoreLoop(m, row, len_j, i + 1, p)

\* if self.pooling == 'mean': proba /= input_lengths[j] - 1
Pooling(pooling, proba, len_j) ==
    IF pooling = "mean" THEN FloatDiv(proba, len_j - 1) ELSE FloatOf(proba)

\* The list extract_batch returns for a loaded model.
ProbaList(s, batch) ==
    LET input_sequences == [j \in 1..Len(batch) |-> EncodeLine(batch[j])]
        input_lengths == [j \in 1..Len(batch) |-> Len(input_sequences[j])]
        sequences_inputs == PadSequence(input_sequences)
    IN  [j \in 1..Len(batch) |->
            Pooling(s.pooling,
                    ScoreLoop(s.model, sequences_inputs[j], input_lengths[j], 0, 0),
                    input_lengths[j])]

\* extract_batch as a call: what it raises or returns, and how many
\* encode_line calls and forward passes it made.
ExtractBatchResult(s, batch) ==
    IF ~s.loaded
    THEN [outcome |-> "ValueError", probabilities |-> <<>>, encoded |-> 0, forwards |-> 0]
    ELSE [outcome |-> "returned", probabilities |-> ProbaList(s, batch),
          encoded |-> Len(batch), forwards |-> 1]

NoTrace == [encoded |-> 0, forwards |-> 0, batches |-> <<>>]

NoRet == [op |-> "none", outcome |-> "none", names |-> <<>>, probabilities |-> <<>>]

\* A direct call of extract_batch on the extractor object, in whatever state
\* its constructor left it.
ExtractBatch(batch) ==
    /\ ctor # "none"
    /\ \E r \in {ExtractBatchResult(self, batch)} :
        /\ ret' = [op |-> "extract_batch", outcome |-> r.outcome,
                   names |-> <<>>, probabilities |-> r.probabilities]
        /\ trace' = [encoded |-> r.encoded, forwards |-> r.forwards,
                     batches |-> <<batch>>]
        /\ UNCHANGED <<fs, out_file, self, ctor, load_calls, arg, probe>>

----------------------------------------------------------------------------
(* TextLstmProbExtractor.extract_all *)

\* n_batches = len(seq_names) // batch_size, plus one when there is a rest
NBatchesFloor(n, batch_size) == n \div batch_size

NBatches(n, batch_size) ==
    IF n % batch_size # 0 THEN n \div batch_size + 1 ELSE n \div batch_size

\* transcriptions[i*batch_size : min(len(seq_names), (i+1)*batch_size)]
BatchSlice(transcriptions, n, batch_size, i) ==
    SubSeq(transcriptions, i * batch_size + 1, Min(n, (i + 1) * batch_size))

\* for i in range(n_batches): probabilities.extend(extract_batch(batch)).
\* acc carries the probabilities and the trace of the calls made so far.
RECURSIVE BatchLoop(_, _, _, _, _, _)
BatchLoop(s, transcriptions, n, n_batches, i, acc) ==
    IF i >= n_batches THEN acc
    ELSE LET batch == BatchSlice(transcriptions, n, s.batch_size, i)
             r == ExtractBatchResult(s, batch)
             t == [encoded |-> acc.trace.encoded + r.encoded,
                   forwards |-> acc.trace.forwards + r.forwards,
                   batches |-> Append(acc.trace.batches, batch)]
         IN  IF r.outcome # "returned"
             THEN [outcome |-> r.outcome, probabilities |-> <<>>, trace |-> t]
             ELSE BatchLoop(s, transcriptions, n, n_batches, i + 1,
                            [outcome |-> "returned",
                             probabilities |-> acc.probabilities \o r.probabilities,
                             trace |-> t])

\* extract_all(data), data a sequence of rows [filename, transcription]:
\* printing transcriptions[0] raises IndexError when there is no row.
ExtractAllResult(s, data) ==
    LET n == Len(data)
        seq_names == [k \in 1..n |-> data[k].filename]
        transcriptions == [k \in 1..n |-> preprocessing(s, data[k].transcription)]
    IN  IF n = 0
        THEN [outcome |-> "IndexError", names |-> <<>>, probabilities |-> <<>>,
              trace |-> NoTrace, example |-> s.example_input]
        ELSE LET r == BatchLoop(s, transcriptions, n, NBatches(n, s.batch_size), 0,
                                [outcome |-> "returned", probabilities |-> <<>>,
                                 trace |-> NoTrace])
             IN  [outcome |-> r.outcome,
                  names |-> IF r.outcome = "returned" THEN seq_names ELSE <<>>,
                  probabilities |-> r.probabilities,
                  trace |-> r.trace,
                  example |-> [set |-> TRUE, val |-> transcriptions[1]]]

ExtractAll(data) ==
    /\ ctor = "ok"
    /\ \E r \in {ExtractAllResult(self, data)} :
        /\ ret' = [op |-> "extract_all", outcome |-> r.outcome,
                   names |-> r.names, probabilities |-> r.probabilities]
        /\ trace' = r.trace
        /\ self' = [self EXCEPT !.example_input = r.example]
        /\ UNCHANGED <<fs, out_file, ctor, load_calls, arg, probe>>

----------------------------------------------------------------------------
(* ProbExtractor.write_probabilities *)

\* str() of a float, written as the exact ratio it stands for; like the
\* text Python prints, it holds neither a space nor a newline.
FormatFloat(x) == ToString(x[1]) \o "/" \o ToString(x[2])

\* f'{filename} {prob}\n'
FormatLine(filename, prob) == filename \o " " \o FormatFloat(prob) \o "\n"

\* open(out_file, 'w'): the text the file holds once opened
OpenAppend(f) == IF f.exists THEN f.text ELSE ""

OpenTruncate(f) == ""

\* for filename, prob in zip(seq_names, probabilities): f.write(...)
RECURSIVE WriteLoop(_, _, _, _)
WriteLoop(seq_names, probabilities, k, text) ==
    IF k > Len(seq_names) \/ k > Len(probabilities) THEN text
    ELSE WriteLoop(seq_names, probabilities, k + 1,
                   text \o FormatLine(seq_names[k], probabilities[k]))

write_probabilities(seq_names, probabilities) ==
    /\ ctor = "ok"
    /\ out_file' = [parent_dir |-> TRUE, exists |-> TRUE,
                    text |-> WriteLoop(seq_names, probabilities, 1, OpenTruncate(out_file))]
    /\ ret' = [op |-> "write_probabilities", outcome |-> "returned",
               names |-> seq_names, probabilities |-> probabilities]
    /\ trace' = NoTrace
    /\ UNCHANGED <<fs, self, ctor, load_calls, arg, probe>>

----------------------------------------------------------------------------
(* probe_babyberta.py: the tokenizer, the data set and the masked language *)
(* model, as far as calc_cross_entropies reads them.                       *)

Missing == "<NaN>"    \* a missing value of the column real

\* RobertaTokenizerFast on one stimulus: <s>, its word pieces, </s>
TokenIds(stimulus) ==
    CASE stimulus = "cat" -> <<BosIdx, 4, EosIdx>>
      [] stimulus = "nan" -> <<BosIdx, 5, 6, EosIdx>>
      [] stimulus = "kat" -> <<BosIdx, 5, EosIdx>>
      [] stimulus = "dag" -> <<BosIdx, 6, 4, EosIdx>>
      [] OTHER            -> <<BosIdx, UnkIdx, EosIdx>>

WordIds == {4, 5, 6}

\* One batch x of the data set: input_ids padded on the right to the longest
\* row, attention_mask 1 on the tokens and 0 on the padding.
MakeBatch(stimuli) ==
    LET ids == [j \in 1..Len(stimuli) |-> TokenIds(stimuli[j])]
        padded == PadSequence(ids)
    IN  [input_ids |-> padded,
         attention_mask |->
            [j \in 1..Len(stimuli) |->
                [p \in 1..Len(padded[j]) |-> IF p <= Len(ids[j]) THEN 1 ELSE 0]]]

\* DataSet.for_probing(make_sequences(stimuli, 1), tokenizer): the stimuli in
\* order, one sequence each, in batches of batch_size (the last one shorter).
ForProbing(stimuli, batch_size) ==
    LET n == Len(stimuli)
        n_batches == (n + batch_size - 1) \div batch_size
    IN  [i \in 1..n_batches |->
            MakeBatch(SubSeq(stimuli, (i - 1) * batch_size + 1, Min(n, i * batch_size)))]

\* loss_fct(logits, labels)[row][p] for the model lm: the cross-entropy of
\* the model's prediction at a position against the token that is there.
\* lm gives it for the word pieces; the special tokens and the padding get
\* a loss as well.
TokenLoss(lm, id) ==
    IF id \in DOMAIN lm THEN lm[id] ELSE IF id = PadIdx THEN 7 ELSE 1

----------------------------------------------------------------------------
(* calc_cross_entropies *)

RECURSIVE SumOver(_, _)
SumOver(f, S) ==
    IF S = {} THEN 0
    ELSE LET x == CHOOSE y \in S : TRUE IN f[x] + SumOver(f, S \ {x})

\* loss_i[np.where(row_mask)[0]].mean()
MeanAllPositions(loss_i, row_mask) == FloatDiv(SumOver(loss_i, DOMAIN loss_i), Len(loss_i))

MaskedMean(loss_i, row_mask) ==
    LET where == {p \in DOMAIN row_mask : row_mask[p] # 0}
    IN  FloatDiv(SumOver(loss_i, where), Cardinality(where))

\* The values one batch adds to cross_entropies.
BatchCrossEntropies(lm, x) ==
    LET loss == [j \in DOMAIN x.input_ids |->
                    [p \in DOMAIN x.input_ids[j] |-> TokenLoss(lm, x.input_ids[j][p])]]
    IN  [j \in DOMAIN loss |-> MaskedMean(loss[j], x.attention_mask[j])]

\* for x, _, _ in dataset: cross_entropies += [...], for the batches lo..hi
\* of the data set, in order (the range is halved to keep the recursion
\* shallow).
RECURSIVE CrossEntropyLoop(_, _, _, _)
CrossEntropyLoop(lm, dataset, lo, hi) ==
    IF lo > hi THEN <<>>
    ELSE IF lo = hi THEN BatchCrossEntropies(lm, dataset[lo])
    ELSE LET mid == (lo + hi) \div 2
         IN  CrossEntropyLoop(lm, dataset, lo, mid) \o CrossEntropyLoop(lm, dataset, mid + 1, hi)

calc_cross_entropies(lm, dataset) ==
    LET cross_entropies == CrossEntropyLoop(lm, dataset, 1, Len(dataset))
    IN  IF cross_entropies = <<>>
        THEN [outcome |-> "RuntimeError", values |-> <<>>]
        ELSE [outcome |-> "returned", values |-> cross_entropies]

----------------------------------------------------------------------------
(* babyberta_probing *)

ProbeLimit == 50

\* data.real.fillna('nan')
FillNa(column) == [k \in DOMAIN column |-> IF column[k] = Missing THEN "nan" ELSE column[k]]

\* .values[:50]
NoSlice(column) == column

FirstRows(column) == SubSeq(column, 1, Min(Len(column), ProbeLimit))

\* out['real_pp'] > out['fake_pp']
IsModelRightOrTie(real_pp, fake_pp) == ~FloatLess(real_pp, fake_pp)

IsModelRight(real_pp, fake_pp) == FloatLess(fake_pp, real_pp)

\* x + y on floats
FloatAdd(x, y) == FloatDiv(x[1] * y[2] + y[1] * x[2], x[2] * y[2])

RECURSIVE FloatSum(_, _)
FloatSum(f, S) ==
    IF S = {} THEN <<0, 1>>
    ELSE LET x == CHOOSE y \in S : TRUE IN FloatAdd(f[x], FloatSum(f, S \ {x}))

\* out.groupby('real')['is_model_right'].mean(): for every distinct real
\* stimulus, the share of its rows where the model is right.
GroupMeans(out) ==
    LET keys == {out[k].real : k \in DOMAIN out}
    IN  [r \in keys |->
            LET rows == {k \in DOMAIN out : out[k].real = r}
                right == {k \in rows : out[k].is_model_right}
            IN  FloatDiv(Cardinality(right), Cardinality(rows))]

\* (out.groupby('real')['is_model_right'].mean()).sum() / len(out)
AccScore(out) ==
    LET means == GroupMeans(out)
        total == FloatSum(means, DOMAIN means)
    IN  FloatDiv(total[1], total[2] * Len(out))

\* cross_entropies[-len(fake_stimuli):][k], k from 1
FakeScore(cross_entropies, n_fake, k) ==
    IF n_fake = 0 THEN cross_entropies[k]
    ELSE cross_entropies[Len(cross_entropies) - n_fake + k]

NoProbe == [op |-> "none", outcome |-> "none", values |-> <<>>, out |-> <<>>, acc |-> <<0, 1>>]

\* babyberta_probing(model, data): data a sequence of rows [real, fake], the
\* model given by lm, the data set's batches holding batch_size sequences.
babyberta_probing(lm, data, batch_size) ==
    LET real_stimuli == FirstRows(FillNa([k \in DOMAIN data |-> data[k].real]))
        fake_stimuli == FirstRows([k \in DOMAIN data |-> data[k].fake])
        stimuli == real_stimuli \o fake_stimuli
        c == calc_cross_entropies(lm, ForProbing(stimuli, batch_size))
        cross_entropies == [k \in DOMAIN c.values |-> FloatNeg(c.values[k])]
    IN  IF c.outcome # "returned"
        THEN [NoProbe EXCEPT !.op = "babyberta_probing", !.outcome = c.outcome]
        ELSE IF Len(real_stimuli) + Len(fake_stimuli) # Len(cross_entropies)
        THEN [NoProbe EXCEPT !.op = "babyberta_probing", !.outcome = "AssertionError"]
        ELSE LET out == [k \in DOMAIN real_stimuli |->
                            LET real_pp == cross_entropies[k]
                                fake_pp == FakeScore(cross_entropies, Len(fake_stimuli), k)
                            IN  [real |-> real_stimuli[k], fake |-> fake_stimuli[k],
                                 real_pp |-> real_pp, fake_pp |-> fake_pp,
                                 is_model_right |-> IsModelRight(real_pp, fake_pp)]]
             IN  [op |-> "babyberta_probing", outcome |-> "returned",
                  values |-> c.values, out |-> out, acc |-> AccScore(out)]

\* A call of babyberta_probing on the data frame and the model of arg.
Probing ==
    /\ \E r \in {babyberta_probing(arg.lm, arg.data, arg.batch_size)} : probe' = r
    /\ UNCHANGED <<fs, out_file, self, ctor, load_calls, ret, trace, arg>>

\* The stimuli of a data frame, all of them, real ones first.
AllStimuli(data) ==
    FillNa([k \in DOMAIN data |-> data[k].real]) \o [k \in DOMAIN data |-> data[k].fake]

\* A call of calc_cross_entropies on the data set of all the stimuli of arg.
CalcCrossEntropies ==
    \E c \in {calc_cross_entropies(arg.lm, ForProbing(AllStimuli(arg.data), arg.batch_size))} :
        /\ probe' = [NoProbe EXCEPT !.op = "calc_cross_entropies",
                                    !.outcome = c.outcome, !.values = c.values]
        /\ UNCHANGED <<fs, out_file, self, ctor, load_calls, ret, trace, arg>>

----------------------------------------------------------------------------
(* Inputs *)

\* The sequences over S of length at most n
SeqsUpTo(S, n) == UNION {[1..k -> S] : k \in 0..n}

Weights == {1, 2}

Poolings == {"mean", "sum", "max"}

Transcriptions ==
    {<<>>, <<"a", "<SEP>", "ab">>, <<"b", "<SEP>", "<SEP>", "a">>}

\* Data frames with the columns filename and transcription
Frames(n) ==
    {[k \in DOMAIN ts |-> [filename |-> "f" \o ToString(k), transcription |-> ts[k]]] :
        ts \in SeqsUpTo(Transcriptions, n)}

LifeFrames ==
    {<<>>,
     <<[filename |-> "f1", transcription |-> <<"a">>]>>,
     <<[filename |-> "f1", transcription |-> <<"a", "<SEP>", "ab">>],
       [filename |-> "f2", transcription |-> <<"b">>]>>}

LifeBatches == {<<<<"a">>>>, <<<<"a", "b">>, <<"b">>>>}

PreviousFiles ==
    {[parent_dir |-> FALSE, exists |-> FALSE, text |-> ""],
     [parent_dir |-> TRUE, exists |-> FALSE, text |-> ""],
     [parent_dir |-> TRUE, exists |-> TRUE, text |-> "old -9/1\n"]}

\* The lists write_probabilities is given: one probability for every name,
\* as extract_all returns them.
PairedLists ==
    {[names |-> [k \in DOMAIN rows |-> rows[k][1]],
      probabilities |-> [k \in DOMAIN rows |-> rows[k][2]]] :
        rows \in SeqsUpTo({"f1", "g"} \X {<<-1, 1>>, <<-3, 2>>, <<-7, 3>>}, MaxRows)}

\* Data frames with the columns real and fake
ProbeRows == [real : {"cat", Missing}, fake : {"kat", "dag"}]

LargeFrame(n, shift) ==
    [k \in 1..n |-> [real |-> IF (k + shift) % 3 = 0 THEN Missing ELSE "cat",
                     fake |-> IF (k + shift) % 2 = 0 THEN "kat" ELSE "dag"]]

SmallProbeFrames == SeqsUpTo(ProbeRows, MaxProbeRows)

ProbeFrames ==
    SmallProbeFrames
    \cup {LargeFrame(n, shift) : n \in (ProbeLimit - 1)..(ProbeLimit + MaxExtraRows),
                                 shift \in 0..1}

LanguageModels == [WordIds -> 1..3]

----------------------------------------------------------------------------
(* Specifications *)

Idle ==
    /\ ctor = "none"
    /\ self = NoExtractor
    /\ load_calls = 0
    /\ ret = NoRet
    /\ trace = NoTrace
    /\ probe = NoProbe

\* The life of one extractor object: its construction, then any calls.
Init ==
    /\ fs \in [model_file : BOOLEAN, dict_dir : BOOLEAN, data_bin : BOOLEAN,
               weights : Weights]
    /\ out_file \in PreviousFiles
    /\ arg = <<>>
    /\ Idle

Next ==
    \/ \E dict_given, rws, bpe, bos \in BOOLEAN, batch_size \in 1..MaxBatchSize,
          pooling \in Poolings :
            Construct(dict_given, batch_size, pooling, rws, bpe, bos)
    \/ \E batch \in LifeBatches : ExtractBatch(batch)
    \/ \E data \in LifeFrames : ExtractAll(data)
    \/ /\ ret.op = "extract_all"
       /\ ret.outcome = "returned"
       /\ write_probabilities(ret.names, ret.probabilities)

Spec == Init /\ [][Next]_vars

\* extract_all and extract_batch on the data frame and the settings of arg.
InitExtract ==
    /\ fs \in [model_file : {TRUE}, dict_dir : {TRUE}, data_bin : {TRUE},
               weights : Weights]
    /\ out_file \in {f \in PreviousFiles : ~f.parent_dir}
    /\ arg \in [data : Frames(MaxRows), batch_size : 1..MaxBatchSize,
                pooling : Poolings, rws : BOOLEAN, bpe : BOOLEAN, bos : BOOLEAN]
    /\ Idle

NextExtract ==
    \/ Construct(TRUE, arg.batch_size, arg.pooling, arg.rws, arg.bpe, arg.bos)
    \/ ExtractAll(arg.data)
    \/ /\ arg.data # <<>>
       /\ ExtractBatch([k \in DOMAIN arg.data |-> arg.data[k].transcription])

SpecExtract == InitExtract /\ [][NextExtract]_vars

\* write_probabilities on the lists of arg, by a constructed extractor.
InitWrite ==
    /\ fs = [model_file |-> TRUE, dict_dir |-> TRUE, data_bin |-> TRUE, weights |-> 1]
    /\ out_file \in PreviousFiles
    /\ arg \in PairedLists
    /\ ctor = "ok"
    /\ self = [load_model(BaseAttributes(TRUE, 1, "mean"), fs) EXCEPT !.sub_init = TRUE]
    /\ load_calls = 1
    /\ ret = NoRet
    /\ trace = NoTrace
    /\ probe = NoProbe

NextWrite == write_probabilities(arg.names, arg.probabilities)

SpecWrite == InitWrite /\ [][NextWrite]_vars

\* babyberta_probing and calc_cross_entropies on the data frame of arg.
InitProbeOn(frames) ==
    /\ fs = [model_file |-> TRUE, dict_dir |-> TRUE, data_bin |-> TRUE, weights |-> 1]
    /\ out_file \in {f \in PreviousFiles : ~f.parent_dir}
    /\ arg \in [data : frames, lm : LanguageModels, batch_size : 1..MaxProbeBatch]
    /\ Idle

NextProbe == Probing \/ CalcCrossEntropies

\* ... on the data frames of a few rows
InitProbe == InitProbeOn(SmallProbeFrames)

SpecProbe == InitProbe /\ [][NextProbe]_vars

\* ... on those and on the data frames of about ProbeLimit rows
InitProbeRows == InitProbeOn(ProbeFrames)

SpecProbeRows == InitProbeRows /\ [][NextProbe]_vars

----------------------------------------------------------------------------
(* Properties of the extractor *)

\* The text of n lines "<filename> <probability>\n", built from the last line
\* backwards.
RECURSIVE ExpectedText(_, _, _)
ExpectedText(seq_names, probabilities, n) ==
    IF n = 0 THEN ""
    ELSE ExpectedText(seq_names, probabilities, n - 1)
         \o seq_names[n] \o " " \o FormatFloat(probabilities[n]) \o "\n"

\* C1: after write_probabilities(seq_names, probabilities, out_file) the file
\* exists and holds exactly one line per input sequence, in input order, the
\* k-th line being the k-th filename, a space, the k-th probability and a
\* newline; nothing of what the file held before is left.
C1_OneLinePerSequence ==
    ret.op = "write_probabilities" =>
        /\ ret.outcome = "returned"
        /\ out_file.exists
        /\ out_file.text = ExpectedText(arg.names, arg.probabilities, Len(arg.names))

C1_Witness ==
    /\ ret.op = "write_probabilities"
    /\ Len(arg.names) >= 2
    /\ arg.names[1] # arg.names[2]
    /\ arg.probabilities[1] # arg.probabilities[2]
    /\ out_file.text = ExpectedText(arg.names, arg.probabilities, Len(arg.names))

\* The score extract_batch gives a transcription that is alone in its batch.
ScoreAlone(s, transcription) == ProbaList(s, <<transcription>>)[1]

\* C2: for any number n of rows and any batch_size >= 1, extract_all returns
\* the filenames unchanged and exactly n probabilities, the k-th being the
\* score of the k-th preprocessed transcription.
C2_OneScorePerRow ==
    ret.op = "extract_all" =>
        /\ ret.outcome = "returned"
        /\ ret.names = [k \in DOMAIN arg.data |-> arg.data[k].filename]
        /\ Len(ret.probabilities) = Len(arg.data)
        /\ \A k \in DOMAIN arg.data :
                ret.probabilities[k] =
                    ScoreAlone(self, preprocessing(self, arg.data[k].transcription))

\* C2, for the data frames that hold at least one row: there the statement
\* holds.
C2_OneScorePerRowNonEmpty ==
    (ret.op = "extract_all" /\ arg.data # <<>>) => C2_OneScorePerRow

\* C3: a construction with model_path not a file, or with the dictionary
\* directory (dict_path, or model_path.parent/'data-bin' when dict_path is
\* None) not a directory, raises ValueError without calling load_model:
\* model and task stay None and loaded stays False.
C3_FailsBeforeLoad ==
    (/\ ctor # "none"
     /\ \/ ~fs.model_file
        \/ self.dict_path = "given" /\ ~fs.dict_dir
        \/ self.dict_path = "data-bin" /\ ~fs.data_bin)
    => /\ ctor = "ValueError"
       /\ load_calls = 0
       /\ self.model = 0
       /\ self.task = "None"
       /\ ~self.loaded

C3_Witness ==
    /\ ctor = "ValueError"
    /\ fs.model_file
    /\ fs.dict_dir
    /\ self.dict_path = "data-bin"
    /\ ~fs.data_bin
    /\ load_calls = 0

\* C4: extract_batch on an extractor whose model is not loaded raises
\* ValueError before any encode_line call or forward pass and returns no
\* probabilities; and once a TextLstmProbExtractor is constructed, loaded is
\* True and model and task are set, in every later state.
C4_LoadedGuard ==
    /\ (ret.op = "extract_batch" /\ ~self.loaded) =>
            /\ ret.outcome = "ValueError"
            /\ ret.probabilities = <<>>
            /\ trace.encoded = 0
            /\ trace.forwards = 0
    /\ ctor = "ok" =>
            /\ self.loaded
            /\ self.model # 0
            /\ self.task # "None"
            /\ load_calls = 1

C4_Witness ==
    /\ ret.op = "extract_batch"
    /\ ~self.loaded
    /\ ret.outcome = "ValueError"
    /\ trace.forwards = 0

\* The sum the claim C7 describes, on the encoded sequence by itself.
ExpectedSum(m, encoded) ==
    LET terms == [i \in 0..(Len(encoded) - 2) |-> LogProb(m, encoded, i, encoded[i + 2])]
    IN  SumOver(terms, DOMAIN terms)

\* C7: extract_batch scores sequence j, of encoded length L_j (start and
\* end-of-sentence tokens included), by the sum over i = 0..L_j-2 of the
\* log-probability the output at position i gives to the token at position
\* i+1, whatever the lengths of the other sequences of the batch; the sum is
\* divided by L_j - 1 when pooling is 'mean' and returned as it is otherwise.
C7_ScoreOfSequence ==
    (ret.op = "extract_batch" /\ ret.outcome = "returned") =>
        LET batch == trace.batches[1]
        IN  /\ Len(ret.probabilities) = Len(batch)
            /\ \A j \in DOMAIN batch :
                LET encoded == EncodeLine(batch[j])
                    L_j == Len(batch[j]) + 2
                    sum == ExpectedSum(self.model, encoded)
                IN  /\ Len(encoded) = L_j
                    /\ self.pooling = "mean" =>
                            /\ ret.probabilities[j][1] * (L_j - 1)
                                    = sum * ret.probabilities[j][2]
                            /\ ret.probabilities[j][2] > 0
                    /\ self.pooling # "mean" => ret.probabilities[j] = <<sum, 1>>

C7_Witness ==
    /\ ret.op = "extract_batch"
    /\ ret.outcome = "returned"
    /\ self.pooling = "mean"
    /\ Len(trace.batches[1]) >= 2
    /\ Len(trace.batches[1][1]) < Len(trace.batches[1][2])
    /\ ret.probabilities[1] # ret.probabilities[2]

\* C8: extract_all over n inputs with batch_size b calls extract_batch
\* ceil(n / b) times, in index order, batch i being the inputs
\* [i*b, min(n, (i+1)*b)): every batch is non-empty and holds at most b
\* inputs, only the last holds fewer, and the batches cover every input once.
C8_BatchesPartitionInputs ==
    ret.op = "extract_all" =>
        LET n == Len(arg.data)
            b == self.batch_size
            calls == Len(trace.batches)
            input(k) == preprocessing(self, arg.data[k].transcription)
        IN  /\ b >= 1
            /\ calls * b >= n
            /\ (calls - 1) * b < n \/ calls = 0
            /\ trace.forwards = calls
            /\ trace.encoded = n
            /\ \A c \in 1..calls :
                /\ Len(trace.batches[c]) >= 1
                /\ Len(trace.batches[c]) <= b
                /\ c < calls => Len(trace.batches[c]) = b
                /\ \A p \in 1..Len(trace.batches[c]) :
                        /\ (c - 1) * b + p <= n
                        /\ trace.batches[c][p] = input((c - 1) * b + p)
            /\ \A k \in 1..n :
                    /\ (k - 1) \div b + 1 <= calls
                    /\ ((k - 1) % b) + 1 <= Len(trace.batches[(k - 1) \div b + 1])

C8_Witness ==
    /\ ret.op = "extract_all"
    /\ ret.outcome = "returned"
    /\ Len(arg.data) = 3
    /\ self.batch_size = 2
    /\ Len(trace.batches) = 2
    /\ Len(trace.batches[2]) = 1

----------------------------------------------------------------------------
(* Properties of the probing *)

\* The cross-entropy of a stimulus by itself: the mean of the loss over its
\* own tokens.
StimulusCrossEntropy(lm, stimulus) ==
    LET ids == TokenIds(stimulus)
        loss == [p \in DOMAIN ids |-> TokenLoss(lm, ids[p])]
    IN  FloatDiv(SumOver(loss, DOMAIN loss), Len(ids))

\* x = y on floats given as fractions
FloatEq(x, y) == x[1] * y[2] = y[1] * x[2]

\* The share of the rows of out with the real stimulus r where the model is
\* right, as the pair <<right rows, rows>>.
ShareRight(out, r) ==
    <<Cardinality({k \in DOMAIN out : out[k].real = r /\ out[k].is_model_right}),
      Cardinality({k \in DOMAIN out : out[k].real = r})>>

\* The mean over the distinct real stimuli of the share of right rows:
\* sum of the shares divided by the number of distinct real stimuli.
MeanOverWords(out) ==
    LET words == {out[k].real : k \in DOMAIN out}
        shares == [r \in words |-> FloatDiv(ShareRight(out, r)[1], ShareRight(out, r)[2])]
        total == FloatSum(shares, words)
    IN  FloatDiv(total[1], total[2] * Cardinality(words))

\* C5: the accuracy babyberta_probing returns is the mean, over the distinct
\* real stimuli, of the share of that stimulus's rows in which the model is
\* right, and it lies between 0 and 1.
C5_AccuracyAcrossWords ==
    (probe.op = "babyberta_probing" /\ probe.outcome = "returned") =>
        /\ FloatEq(probe.acc, MeanOverWords(probe.out))
        /\ 0 <= probe.acc[1]
        /\ probe.acc[1] <= probe.acc[2]

\* C6: a row counts as right exactly when the negated cross-entropy of its
\* real stimulus is strictly greater than that of its fake stimulus (a tie is
\* wrong); and when the real stimuli are all distinct the accuracy is the
\* number of right rows divided by the number of rows.
C6_StrictComparison ==
    (probe.op = "babyberta_probing" /\ probe.outcome = "returned") =>
        LET out == probe.out
            right == {k \in DOMAIN out : out[k].is_model_right}
            score(stimulus) == FloatNeg(StimulusCrossEntropy(arg.lm, stimulus))
        IN  /\ \A k \in DOMAIN out :
                    /\ FloatEq(out[k].real_pp, score(out[k].real))
                    /\ FloatEq(out[k].fake_pp, score(out[k].fake))
                    /\ out[k].is_model_right <=>
                            (out[k].real_pp[1] * out[k].fake_pp[2]
                                > out[k].fake_pp[1] * out[k].real_pp[2])
                    /\ FloatEq(out[k].real_pp, out[k].fake_pp) => ~out[k].is_model_right
            /\ (\A j, k \in DOMAIN out : j # k => out[j].real # out[k].real) =>
                    probe.acc[1] * Len(out) = Cardinality(right) * probe.acc[2]

C6_Witness ==
    /\ probe.op = "babyberta_probing"
    /\ probe.outcome = "returned"
    /\ Len(probe.out) = 2
    /\ probe.out[1].real # probe.out[2].real
    /\ FloatEq(probe.out[1].real_pp, probe.out[1].fake_pp)
    /\ ~probe.out[1].is_model_right
    /\ probe.out[2].is_model_right
    /\ probe.acc = <<1, 2>>

\* C9: calc_cross_entropies returns one value per row of every batch the
\* data set yields, in order, each the mean of the loss over the positions of
\* the row whose attention_mask is not zero; with no batch it raises
\* RuntimeError.
C9_MeanOverAttendedTokens ==
    probe.op = "calc_cross_entropies" =>
        LET stimuli == AllStimuli(arg.data)
        IN  /\ stimuli = <<>> => probe.outcome = "RuntimeError" /\ probe.values = <<>>
            /\ stimuli # <<>> =>
                    /\ probe.outcome = "returned"
                    /\ Len(probe.values) = Len(stimuli)
                    /\ \A k \in DOMAIN stimuli :
                            FloatEq(probe.values[k],
                                    StimulusCrossEntropy(arg.lm, stimuli[k]))

C9_Witness ==
    /\ probe.op = "calc_cross_entropies"
    /\ probe.outcome = "returned"
    /\ arg.batch_size = 2
    /\ Len(arg.data) = 1
    /\ arg.data[1].real = "cat"
    /\ arg.data[1].fake = "dag"
    /\ Len(probe.values) = 2

\* C10: babyberta_probing scores the first 50 rows only: the table it returns
\* has min(n, 50) rows, row k holding the k-th real and the k-th fake
\* stimulus, real_pp from the first half and fake_pp from the second half of
\* the scores of the real stimuli followed by the fake ones; the accuracy is
\* computed over those rows.
C10_FirstFiftyRows ==
    (probe.op = "babyberta_probing" /\ probe.outcome = "returned") =>
        LET n == Len(arg.data)
            rows == IF n < 50 THEN n ELSE 50
            out == probe.out
        IN  /\ Len(out) = rows
            /\ Len(probe.values) = 2 * rows
            /\ \A k \in 1..rows :
                    /\ out[k].real = (IF arg.data[k].real = Missing THEN "nan"
                                      ELSE arg.data[k].real)
                    /\ out[k].fake = arg.data[k].fake
                    /\ out[k].real_pp = FloatNeg(probe.values[k])
                    /\ out[k].fake_pp = FloatNeg(probe.values[rows + k])
                    /\ FloatEq(probe.values[k], StimulusCrossEntropy(arg.lm, out[k].real))
                    /\ FloatEq(probe.values[rows + k],
                               StimulusCrossEntropy(arg.lm, out[k].fake))
            /\ LET means == [r \in {out[k].real : k \in 1..rows} |->
                                FloatDiv(ShareRight(out, r)[1], ShareRight(out, r)[2])]
                   total == FloatSum(means, DOMAIN means)
               IN  probe.acc[1] * total[2] * rows = total[1] * probe.acc[2]

C10_Witness ==
    /\ probe.op = "babyberta_probing"
    /\ probe.outcome = "returned"
    /\ Len(arg.data) > ProbeLimit
    /\ Len(probe.out) = ProbeLimit
    /\ probe.out[ProbeLimit].real_pp # probe.out[ProbeLimit].fake_pp

====
